---------------------------- MODULE Spec2Model ----------------------------
(***************************************************************************)
(* The file-descriptor layer of kern/syscall/file_syscalls.c: sys_open,    *)
(* sys_read, sys_write, sys_close over a per-process descriptor table of   *)
(* shared, reference-counted open-file objects, and sys_meld, which        *)
(* interleaves two files into a third in 4-byte chunks.                    *)
(*                                                                         *)
(* The specifications of the module:                                       *)
(*   SpecMeld      one call of sys_meld on two source files of every       *)
(*                 length up to MaxSrcLen, the VFS transferring without    *)
(*                 error;                                                  *)
(*   SpecMeldIo    the same call with transfers that may fail, and         *)
(*   SpecMeldLive  with the calling thread scheduled fairly;               *)
(*   Spec          the descriptor layer: threads of two processes running  *)
(*                 open, dup, close, read and write step by step on one    *)
(*                 shared object;                                          *)
(*   SpecTable     open and dup filling the tables, with two objects;      *)
(*   SpecLocks     a call of sys_meld beside two processes reading and     *)
(*                 writing through two objects.                            *)
(***************************************************************************)
EXTENDS Integers, Sequences, FiniteSets, TLC

\* ------------------------------------------------------------------ bounds

\* Longest source file given to meld.
MaxSrcLen == 9

\* Slots of a process's descriptor table (OPEN_MAX).
TableSize == 2

\* Capacity of the file the descriptors are opened on: a write that would
\* pass it fails in the VFS.
MaxFileLen == 2

\* The length of the source files of a meld that runs beside other calls.
LockSrcLen == 1

\* ------------------------------------------------------- program constants

\* The chunk width of meld: kmalloc(sizeof(char) * 4), uio_kinit(..., 4, ...).
ChunkSize == 4

\* The space character meld pads with.
SPACE == " "

\* What an uninitialised kmalloc'ed byte may hold.
JunkBytes == {"?", "~"}

\* writebuf1 and writebuf2 of the meld test, repeated to any length.
Src1Pattern == <<"0", "1", "2", "3", "8", "9", "0", "1">>

Src2Pattern == <<"4", "5", "6", "7", "2", "3", "4", "5">>

\* What a merged path that exists already holds.
OldMerged == <<"x", "y">>

\* kern/fcntl.h: the flags of open.
O_RDONLY == 0

O_WRONLY == 1

O_RDWR == 2

O_ACCMODE == 3

O_CREAT == 4

O_EXCL == 8

O_TRUNC == 16

O_APPEND == 32

O_NOCTTY == 64

\* The processes, one thread each, every one with its own descriptor table.
Procs == {1, 2}

\* The descriptors of a table, and the values a caller may pass.
Fds == 0..(TableSize - 1)

FdArgs == 0..TableSize

\* The open-file objects openfile_open may allocate. Objects have no state
\* in common but the file: each has its own count, offset and lock.
Objs == {1, 2}

\* An empty slot of a table, a thread that holds no object.
NULL == 0

\* The sizes callers pass to read and write.
SizeArgs == {1, 2}

\* The file every open names, as it is at the start.
StartFile == <<"a", "b">>

VARIABLES
    \* ---- sys_meld
    mpc,              \* where the call is
    vn1, vn2,         \* contents of the two source files (the vnodes' data)
    vnmerge,          \* content of the file at the merged path
    mergeExists,      \* whether the merged path names a file
    mfile,            \* file1, file2, filemerge: the three open-file objects
    kbuf1, kbuf2,     \* the two 4-byte kernel buffers
    file1Read, file2Read,
    file1LastOffset, file2LastOffset,
    kheap,            \* kernel allocations of the call not yet kfree'd
    mresult,          \* the value sys_meld returns
    mretval,          \* *retval
    \* ---- the descriptor layer
    ft,               \* curproc->p_filetable of each process: slot -> object
    of,               \* the open-file objects
    vndata,           \* content of the file the objects are opened on
    th,               \* each thread: where it is in its call, and its locals
    released,         \* per object, how often its handle was released
    moved,            \* per object, the sum of the byte counts reported
    written,          \* per object, the buffers written through it, in order
    ret               \* the last call that returned, and what it returned

meldVars == <<mpc, vn1, vn2, vnmerge, mergeExists, mfile, kbuf1, kbuf2,
              file1Read, file2Read, file1LastOffset, file2LastOffset,
              kheap, mresult, mretval>>

fdVars == <<ft, of, vndata, th, released, moved, written, ret>>

vars == <<meldVars, fdVars>>

\* ------------------------------------------------------------ VFS helpers

Min(a, b) == IF a < b THEN a ELSE b

Max(a, b) == IF a > b THEN a ELSE b

\* The file of length n that repeats pat.
PatternFile(pat, n) == [i \in 1..n |-> pat[((i - 1) % Len(pat)) + 1]]

\* VOP_READ: the number of bytes a read of len bytes at offset off moves.
ReadCount(data, off, len) == Min(len, Max(0, Len(data) - off))

\* VOP_READ into a kernel buffer: the bytes moved overwrite the front of the
\* buffer, the rest of the buffer keeps what it held.
ReadInto(buf, data, off, len) ==
    [i \in 1..Len(buf) |->
        IF i <= ReadCount(data, off, len) THEN data[off + i] ELSE buf[i]]

\* VOP_WRITE: the file after bytes are written at offset off (a gap reads as
\* zero bytes).
WriteAt(data, off, bytes) ==
    [i \in 1..Max(Len(data), off + Len(bytes)) |->
        IF i > off /\ i <= off + Len(bytes) THEN bytes[i - off]
        ELSE IF i <= Len(data) THEN data[i]
        ELSE "\\0"]

\* --------------------------------------------------------------- sys_meld

MeldFiles == {"file1", "file2", "filemerge"}

NoFile == [of_refcount |-> 0, of_offset |-> 0, locked |-> FALSE]

\* openfile_open: a new object, reference count 1, offset 0.
NewFile == [of_refcount |-> 1, of_offset |-> 0, locked |-> FALSE]

MeldInit ==
    /\ mpc = "entry"
    /\ \E n1 \in 0..MaxSrcLen, n2 \in 0..MaxSrcLen :
          /\ vn1 = PatternFile(Src1Pattern, n1)
          /\ vn2 = PatternFile(Src2Pattern, n2)
    /\ mergeExists \in BOOLEAN
    /\ vnmerge = IF mergeExists THEN OldMerged ELSE <<>>
    /\ mfile = [f \in MeldFiles |-> NoFile]
    /\ \E j \in JunkBytes :
          /\ kbuf1 = [i \in 1..ChunkSize |-> j]
          /\ kbuf2 = [i \in 1..ChunkSize |-> j]
    /\ file1Read = -1
    /\ file2Read = -1
    /\ file1LastOffset = 0
    /\ file2LastOffset = 0
    /\ kheap = {}
    /\ mresult = "running"
    /\ mretval = -1

\* A loop that no read ends.
LoopCondAlways(r1, r2) == TRUE

\* The condition of the while loop.
LoopCond(r1, r2) == r1 # 0 /\ r2 # 0

\* The padding block of one buffer: n is what its own read returned, other
\* what the other source's read returned.
PadCondInclusive(n, other) == (n > 0 /\ n <= ChunkSize) \/ (other > 0 /\ n = 0)

PadCond(n, other) == (n > 0 /\ n < ChunkSize) \/ (other > 0 /\ n = 0)

PadStart(n) == IF n = 0 THEN 1 ELSE n

\* for(loopcnt = start - 1; loopcnt < 4; loopcnt++) ptr[loopcnt] = ' ';
\* ptr[loopcnt] is buf[loopcnt + 1] here.
PadLoop(buf, start) ==
    [i \in 1..Len(buf) |-> IF i - 1 >= start - 1 THEN SPACE ELSE buf[i]]

Pad(buf, n, other) ==
    IF PadCond(n, other) THEN PadLoop(buf, PadStart(n)) ELSE buf

\* The condition of the write block.
WriteCond(r1, r2) == r1 # 0 \/ r2 # 0

\* A return of sys_meld before the loop: nothing is released on the way out.
MeldReturn(err, heap, files) ==
    /\ mpc' = "done"
    /\ mresult' = err
    /\ kheap' = heap
    /\ mfile' = files
    /\ UNCHANGED <<vn1, vn2, vnmerge, mergeExists, kbuf1, kbuf2, file1Read,
                   file2Read, file1LastOffset, file2LastOffset, mretval>>

RECURSIVE BitAnd(_, _)
BitAnd(a, b) ==
    IF a = 0 \/ b = 0 THEN 0
    ELSE (a % 2) * (b % 2) + 2 * BitAnd(a \div 2, b \div 2)

RECURSIVE BitOr(_, _)
BitOr(a, b) ==
    IF a = 0 THEN b
    ELSE IF b = 0 THEN a
    ELSE Max(a % 2, b % 2) + 2 * BitOr(a \div 2, b \div 2)

\* The flags of the third open without O_EXCL.
MergeOpenFlagsNoExcl == BitOr(O_WRONLY, O_CREAT)

\* openfile_open(kpathmerge, O_WRONLY|O_CREAT|O_EXCL, 0664, &filemerge).
MergeOpenFlags == BitOr(O_WRONLY, BitOr(O_CREAT, O_EXCL))

\* vfs_open refuses to create, under O_EXCL, a file that exists.
ExclusiveCreate(flags) ==
    BitAnd(flags, O_CREAT) # 0 /\ BitAnd(flags, O_EXCL) # 0

KPaths == {"kpath1", "kpath2", "kpathmerge"}

\* Lines 200-233: the null check, the three copyinstr, the three
\* openfile_open, the two buffers. A null path, a copy-in fault and a source
\* that cannot be opened are the caller's and the collaborators' choice; the
\* merged path is opened O_CREAT|O_EXCL, and without O_TRUNC.
MeldEntry ==
    /\ mpc = "entry"
    /\ \/ MeldReturn("EINVAL", {}, mfile)
       \/ MeldReturn("EFAULT", KPaths, mfile)
       \/ MeldReturn("ENOENT", KPaths, mfile)
       \/ MeldReturn("ENOENT", KPaths, [mfile EXCEPT !["file1"] = NewFile])
       \/ /\ mergeExists
          /\ ExclusiveCreate(MergeOpenFlags)
          /\ MeldReturn("EEXIST", KPaths,
                        [mfile EXCEPT !["file1"] = NewFile, !["file2"] = NewFile])
       \/ /\ ~mergeExists \/ ~ExclusiveCreate(MergeOpenFlags)
          /\ mergeExists' = TRUE
          /\ mfile' = [f \in MeldFiles |-> NewFile]
          /\ kheap' = KPaths \cup {"kbuf1", "kbuf2"}
          /\ mpc' = "while"
          /\ UNCHANGED <<vn1, vn2, vnmerge, kbuf1, kbuf2, file1Read, file2Read,
                         file1LastOffset, file2LastOffset, mresult, mretval>>

\* Line 235: the loop test.
MeldWhile ==
    /\ mpc = "while"
    /\ mpc' = IF LoopCond(file1Read, file2Read) THEN "lock1" ELSE "exit"
    /\ UNCHANGED <<vn1, vn2, vnmerge, mergeExists, mfile, kbuf1, kbuf2,
                   file1Read, file2Read, file1LastOffset, file2LastOffset,
                   kheap, mresult, mretval>>

\* lock_acquire(f->of_offsetlock) at program point at.
MeldLock(at, f, next) ==
    /\ mpc = at
    /\ ~mfile[f].locked
    /\ mfile' = [mfile EXCEPT ![f].locked = TRUE]
    /\ mpc' = next
    /\ UNCHANGED <<vn1, vn2, vnmerge, mergeExists, kbuf1, kbuf2, file1Read,
                   file2Read, file1LastOffset, file2LastOffset, kheap,
                   mresult, mretval>>

\* The read of file1 with lock_release(file1->of_offsetlock) put off.
MeldRead1LockKept ==
    /\ mpc = "read1"
    /\ LET off == mfile["file1"].of_offset
           end == off + ReadCount(vn1, off, ChunkSize)
       IN  /\ kbuf1' = ReadInto(kbuf1, vn1, off, ChunkSize)
           /\ file1Read' = end - file1LastOffset
           /\ file1LastOffset' = end
           /\ mfile' = [mfile EXCEPT !["file1"].of_offset = end]
    /\ mpc' = "lock2"
    /\ UNCHANGED <<vn1, vn2, vnmerge, mergeExists, kbuf2, file2Read,
                   file2LastOffset, kheap, mresult, mretval>>

\* Lines 240-246: the read of file1 and the release of its lock.
MeldRead1 ==
    /\ mpc = "read1"
    /\ LET off == mfile["file1"].of_offset
           end == off + ReadCount(vn1, off, ChunkSize)
       IN  /\ kbuf1' = ReadInto(kbuf1, vn1, off, ChunkSize)
           /\ file1Read' = end - file1LastOffset
           /\ file1LastOffset' = end
           /\ mfile' = [mfile EXCEPT !["file1"].of_offset = end,
                                     !["file1"].locked = FALSE]
    /\ mpc' = "lock2"
    /\ UNCHANGED <<vn1, vn2, vnmerge, mergeExists, kbuf2, file2Read,
                   file2LastOffset, kheap, mresult, mretval>>

\* Lines 251-257: the read of file2 and the release of its lock.
MeldRead2 ==
    /\ mpc = "read2"
    /\ LET off == mfile["file2"].of_offset
           end == off + ReadCount(vn2, off, ChunkSize)
       IN  /\ kbuf2' = ReadInto(kbuf2, vn2, off, ChunkSize)
           /\ file2Read' = end - file2LastOffset
           /\ file2LastOffset' = end
           /\ mfile' = [mfile EXCEPT !["file2"].of_offset = end,
                                     !["file2"].locked = FALSE]
    /\ mpc' = "pad"
    /\ UNCHANGED <<vn1, vn2, vnmerge, mergeExists, kbuf1, file1Read,
                   file1LastOffset, kheap, mresult, mretval>>

\* Lines 259-281: the two padding blocks and the test of the write block.
MeldPad ==
    /\ mpc = "pad"
    /\ kbuf1' = Pad(kbuf1, file1Read, file2Read)
    /\ kbuf2' = Pad(kbuf2, file2Read, file1Read)
    /\ mpc' = IF WriteCond(file1Read, file2Read) THEN "lockw1" ELSE "while"
    /\ UNCHANGED <<vn1, vn2, vnmerge, mergeExists, mfile, file1Read,
                   file2Read, file1LastOffset, file2LastOffset, kheap,
                   mresult, mretval>>

\* Lines 285-288 and 292-295: one write of a buffer and the release.
MeldWrite(at, buf, next) ==
    /\ mpc = at
    /\ LET off == mfile["filemerge"].of_offset
       IN  /\ vnmerge' = WriteAt(vnmerge, off, buf)
           /\ mfile' = [mfile EXCEPT !["filemerge"].of_offset = off + Len(buf),
                                     !["filemerge"].locked = FALSE]
    /\ mpc' = next
    /\ UNCHANGED <<vn1, vn2, mergeExists, kbuf1, kbuf2, file1Read, file2Read,
                   file1LastOffset, file2LastOffset, kheap, mresult, mretval>>

\* The order of the two writes of an iteration: kbuf1, then kbuf2.
MeldWriteFirst == MeldWrite("write1", kbuf1, "lockw2")

MeldWriteSecond == MeldWrite("write2", kbuf2, "while")

\* uio_offset after a transfer of the VFS that failed: where it began.
FailedTransferEnd(off) == off

\* VOP_READ fails at program point at: no byte moves and uio_offset stays
\* where uio_kinit put it. result is assigned and never tested, so what
\* follows is as after a read at end of file, with the buffer as it was.
MeldReadFails(at, f, next) ==
    /\ mpc = at
    /\ LET end == FailedTransferEnd(mfile[f].of_offset)
       IN  /\ file1Read' = IF f = "file1" THEN end - file1LastOffset
                           ELSE file1Read
           /\ file2Read' = IF f = "file2" THEN end - file2LastOffset
                           ELSE file2Read
           /\ file1LastOffset' = IF f = "file1" THEN end ELSE file1LastOffset
           /\ file2LastOffset' = IF f = "file2" THEN end ELSE file2LastOffset
           /\ mfile' = [mfile EXCEPT ![f].of_offset = end, ![f].locked = FALSE]
    /\ mpc' = next
    /\ UNCHANGED <<vn1, vn2, vnmerge, mergeExists, kbuf1, kbuf2, kheap,
                   mresult, mretval>>

\* VOP_WRITE fails at program point at: no byte is written and the offset
\* stored is the one the write began at.
MeldWriteFails(at, next) ==
    /\ mpc = at
    /\ mfile' = [mfile EXCEPT !["filemerge"].of_offset = FailedTransferEnd(@),
                              !["filemerge"].locked = FALSE]
    /\ mpc' = next
    /\ UNCHANGED <<vn1, vn2, vnmerge, mergeExists, kbuf1, kbuf2, file1Read,
                   file2Read, file1LastOffset, file2LastOffset, kheap,
                   mresult, mretval>>

\* Lines 299-312: the result, the three openfile_decref, the five kfree.
MeldExit ==
    /\ mpc = "exit"
    /\ mretval' = mfile["filemerge"].of_offset
    /\ mfile' = [f \in MeldFiles |-> [mfile[f] EXCEPT !.of_refcount = 0]]
    /\ kheap' = {}
    /\ mresult' = "0"
    /\ mpc' = "done"
    /\ UNCHANGED <<vn1, vn2, vnmerge, mergeExists, kbuf1, kbuf2, file1Read,
                   file2Read, file1LastOffset, file2LastOffset>>

\* ------------------------------------------------- the descriptor layer

\* const int allflags (line 30).
allflags ==
    BitOr(O_ACCMODE, BitOr(O_CREAT, BitOr(O_EXCL,
        BitOr(O_TRUNC, BitOr(O_APPEND, O_NOCTTY)))))

\* The flags values callers pass to open: on both sides of each limit of the
\* test, and one with a legal bit under an illegal one.
FlagArgs == {-1, O_RDONLY, O_WRONLY, allflags, allflags + 1, 256 + O_CREAT}

\* The test of flags with its upper limit lost.
BadFlagsNegativeOnly(flags) == flags < 0

\* Line 37: the test of flags.
BadFlags(flags) == flags < 0 \/ flags > allflags

\* An object never created, and the one openfile_open creates.
NoObj == [state |-> "unused", of_refcount |-> 0, of_offset |-> 0,
          of_accmode |-> O_RDONLY, lock |-> NULL]

NewObj(flags) == [state |-> "live", of_refcount |-> 1, of_offset |-> 0,
                  of_accmode |-> BitAnd(flags, O_ACCMODE), lock |-> NULL]

\* A thread between calls.
Idle ==
    [pc |-> "idle", op |-> "none", fd |-> -1, arg |-> 0, thefile |-> NULL,
     oldOffset |-> 0, uio_offset |-> 0]

\* A thread inside a call. read and write have no use for fd once
\* filetable_get has given the object, and do not keep it.
InCall(pc, op, fd, arg, o) ==
    [pc |-> pc, op |-> op, fd |-> fd, arg |-> arg, thefile |-> o,
     oldOffset |-> 0, uio_offset |-> 0]

\* Before any call has returned.
NoReturn ==
    [p |-> 0, op |-> "none", fd |-> -1, arg |-> 0, thefile |-> NULL,
     before |-> 0, result |-> "none", retval |-> -1, heap |-> {}]

\* The kernel has panicked: nothing runs any more.
Panicked == \E p \in Procs : th[p].pc = "panic"

Panic(p) == th' = [th EXCEPT ![p].pc = "panic"] /\ UNCHANGED ret

\* A thread may take a step: no panic, and the last return has been seen.
Running == ~Panicked /\ ret = NoReturn

FdInit ==
    /\ ft = [p \in Procs |-> [fd \in Fds |-> NULL]]
    /\ of = [o \in Objs |-> NoObj]
    /\ vndata = StartFile
    /\ th = [p \in Procs |-> Idle]
    /\ released = [o \in Objs |-> 0]
    /\ moved = [o \in Objs |-> 0]
    /\ written = [o \in Objs |-> <<>>]
    /\ ret = NoReturn

\* filetable_get: the error for a descriptor out of range or not open.
GetFails(p, fd) == fd \notin Fds \/ ft[p][fd] = NULL

\* filetable_place: the lowest free slot of a table.
FreeSlots(p) == {fd \in Fds : ft[p][fd] = NULL}

LowestFree(p) == CHOOSE fd \in FreeSlots(p) : \A g \in FreeSlots(p) : fd <= g

\* The next object openfile_open allocates.
UnusedObjs == {o \in Objs : of[o].state = "unused"}

FreshObj == CHOOSE o \in UnusedObjs : \A q \in UnusedObjs : o <= q

\* vfs_open: the access mode must be one of the three.
VfsOpenOk(flags) == BitAnd(flags, O_ACCMODE) # O_ACCMODE

\* The call of thread p returns: the thread is between calls again, and
\* what the call was and gave is on record, with the object it was on and
\* the offset that object had just before this last step of the call.
ReturnHolding(p, op, fd, arg, result, retval, heap) ==
    /\ th' = [th EXCEPT ![p] = Idle]
    /\ ret' = [p |-> p, op |-> op, fd |-> fd, arg |-> arg,
               thefile |-> th[p].thefile,
               before |-> IF th[p].thefile = NULL THEN 0
                          ELSE of[th[p].thefile].of_offset,
               result |-> result, retval |-> retval, heap |-> heap]

\* A return with every kmalloc of the call freed.
Return(p, op, fd, arg, result, retval) ==
    ReturnHolding(p, op, fd, arg, result, retval, {})

\* Thread p enters a call and goes on to pc.
Enter(p, pc, op, fd, arg, o) ==
    th' = [th EXCEPT ![p] = InCall(pc, op, fd, arg, o)] /\ UNCHANGED ret

\* sys_open (lines 27-52). The path copied in is lost to the heap when
\* copyinstr fails; the object is not released when the table is full.
SysOpen(p) ==
    /\ th[p].pc = "idle"
    /\ Running
    /\ \E flags \in FlagArgs, upathNull \in BOOLEAN :
          \/ /\ BadFlags(flags)
             /\ Return(p, "open", -1, flags, "EINVAL", -1)
             /\ UNCHANGED <<ft, of>>
          \/ /\ ~BadFlags(flags)
             /\ upathNull
             /\ Return(p, "open", -1, flags, "EINVAL", -1)
             /\ UNCHANGED <<ft, of>>
          \/ /\ ~BadFlags(flags)
             /\ ~upathNull
             /\ \/ /\ ReturnHolding(p, "open", -1, flags, "EFAULT", -1,
                                    {"kpath"})
                   /\ UNCHANGED <<ft, of>>
                \/ /\ Return(p, "open", -1, flags,
                             IF VfsOpenOk(flags) THEN "ENOENT" ELSE "EINVAL", -1)
                   /\ UNCHANGED <<ft, of>>
                \/ /\ VfsOpenOk(flags)
                   /\ UnusedObjs # {}
                   /\ of' = [of EXCEPT ![FreshObj] = NewObj(flags)]
                   /\ IF FreeSlots(p) = {}
                      THEN /\ Return(p, "open", -1, flags, "EMFILE", -1)
                           /\ UNCHANGED ft
                      ELSE /\ ft' = [ft EXCEPT ![p][LowestFree(p)] = FreshObj]
                           /\ Return(p, "open", LowestFree(p), flags, "0",
                                     LowestFree(p))
    /\ UNCHANGED <<vndata, released, moved, written>>

\* A descriptor is duplicated, into the same table or into another process's:
\* incRef, then place. Thread p does it; a process that receives a slot is
\* between calls.
Dup(p, fd, q) ==
    /\ th[p].pc = "idle"
    /\ th[q].pc = "idle"
    /\ Running
    /\ ft[p][fd] # NULL
    /\ of[ft[p][fd]].state = "live"
    /\ FreeSlots(q) # {}
    /\ of' = [of EXCEPT ![ft[p][fd]].of_refcount = @ + 1]
    /\ ft' = [ft EXCEPT ![q][LowestFree(q)] = ft[p][fd]]
    /\ UNCHANGED <<vndata, th, released, moved, written, ret>>

\* ---- sys_close

\* What a read of thefile->of_refcount may give: the count of a live
\* object, anything of one already freed.
RefcountRead(o) ==
    IF of[o].state = "live" THEN {of[o].of_refcount} ELSE 0..2

\* if(thefile->of_refcount == 1)
LastReference(rc) == rc = 1

\* Lines 173-179: filetable_get; the test of the count, made without the
\* object's lock; filetable_placeat(NULL) when the count is 1. The count
\* read is kept in arg.
SysCloseGet(p) ==
    /\ th[p].pc = "idle"
    /\ Running
    /\ \E fd \in FdArgs :
          IF GetFails(p, fd)
          THEN /\ Return(p, "close", fd, 0, "EBADF", -1)
               /\ UNCHANGED ft
          ELSE \/ /\ of[ft[p][fd]].state = "freed"
                  /\ Panic(p)
                  /\ UNCHANGED ft
               \/ \E rc \in RefcountRead(ft[p][fd]) :
                     /\ ft' = IF LastReference(rc)
                              THEN [ft EXCEPT ![p][fd] = NULL] ELSE ft
                     /\ Enter(p, "close_decref", "close", fd, rc, ft[p][fd])
    /\ UNCHANGED <<of, vndata, released, moved, written>>

\* openfile_decref: under the object's mutex, one less; at zero the handle is
\* released and the object freed.
DecRef(o) ==
    IF of[o].of_refcount = 1
    THEN /\ of' = [of EXCEPT ![o].of_refcount = 0, ![o].state = "freed"]
         /\ released' = [released EXCEPT ![o] = @ + 1]
    ELSE /\ of' = [of EXCEPT ![o].of_refcount = @ - 1]
         /\ UNCHANGED released

\* Lines 181-184: openfile_decref and the return. On an object already
\* freed the decrement is a use after free: a panic, a second release of the
\* handle, or no effect.
SysCloseDecref(p) ==
    /\ th[p].pc = "close_decref"
    /\ Running
    /\ LET o == th[p].thefile
       IN  \/ /\ of[o].state = "live"
              /\ DecRef(o)
              /\ Return(p, "close", th[p].fd, th[p].arg, "0", 0)
           \/ /\ of[o].state = "freed"
              /\ Panic(p)
              /\ UNCHANGED <<of, released>>
           \/ /\ of[o].state = "freed"
              /\ released[o] < 2
              /\ released' = [released EXCEPT ![o] = @ + 1]
              /\ Return(p, "close", th[p].fd, th[p].arg, "0", 0)
              /\ UNCHANGED of
           \/ /\ of[o].state = "freed"
              /\ Return(p, "close", th[p].fd, th[p].arg, "0", 0)
              /\ UNCHANGED <<of, released>>
    /\ UNCHANGED <<ft, vndata, moved, written>>

\* ---- sys_read and sys_write

\* lock_acquire that does not wait.
LockFreeAlways(o) == TRUE

\* lock_acquire(thefile->of_offsetlock) goes on when no thread holds the lock.
LockFree(o) == of[o].lock = NULL

\* The transfer set up at the start of the file, not at the offset.
LockAndLoadFromStart(p, pc, op, size, o) ==
    /\ LockFree(o)
    /\ of' = [of EXCEPT ![o].lock = p]
    /\ th' = [th EXCEPT ![p] =
                 [InCall(pc, op, -1, size, o) EXCEPT
                     !.oldOffset = of[o].of_offset,
                     !.uio_offset = 0]]
    /\ UNCHANGED ret

\* Lines 76-87 and 130-142: lock_acquire, and under the lock
\* int oldOffset = thefile->of_offset; theuio.uio_offset = thefile->of_offset;
\* A thread that waits for the lock has done nothing another thread can see,
\* so the call begins when the lock is free.
LockAndLoad(p, pc, op, size, o) ==
    /\ LockFree(o)
    /\ of' = [of EXCEPT ![o].lock = p]
    /\ th' = [th EXCEPT ![p] =
                 [InCall(pc, op, -1, size, o) EXCEPT
                     !.oldOffset = of[o].of_offset,
                     !.uio_offset = of[o].of_offset]]
    /\ UNCHANGED ret

\* The test of the access mode made against the wrong mode.
ReadRefusedReadOnly(accmode) == accmode = O_RDONLY

\* if (thefile->of_accmode == O_WRONLY) { return EBADF; }
ReadRefused(accmode) == accmode = O_WRONLY

\* Lines 66-87: filetable_get, the test of the access mode, kmalloc, the lock
\* and the set up of the transfer. The fields of a freed object are freed
\* memory: a panic, or their stale values.
SysReadEntry(p) ==
    /\ th[p].pc = "idle"
    /\ Running
    /\ \E fd \in FdArgs, size \in SizeArgs :
          IF GetFails(p, fd)
          THEN Return(p, "read", fd, size, "EBADF", -1) /\ UNCHANGED of
          ELSE LET o == ft[p][fd]
               IN  \/ /\ of[o].state = "freed"
                      /\ Panic(p)
                      /\ UNCHANGED of
                   \/ /\ ReadRefused(of[o].of_accmode)
                      /\ Return(p, "read", fd, size, "EBADF", -1)
                      /\ UNCHANGED of
                   \/ /\ ~ReadRefused(of[o].of_accmode)
                      /\ Return(p, "read", fd, size, "EINVAL", -1)
                      /\ UNCHANGED of
                   \/ /\ ~ReadRefused(of[o].of_accmode)
                      /\ LockAndLoad(p, "read_vop", "read", size, o)
    /\ UNCHANGED <<ft, vndata, released, moved, written>>

\* Lines 123-142: filetable_get, kmalloc, the lock and the set up of the
\* transfer.
SysWriteEntry(p) ==
    /\ th[p].pc = "idle"
    /\ Running
    /\ \E fd \in FdArgs, size \in SizeArgs :
          IF GetFails(p, fd)
          THEN Return(p, "write", fd, size, "EBADF", -1) /\ UNCHANGED of
          ELSE LET o == ft[p][fd]
               IN  \/ /\ Return(p, "write", fd, size, "EINVAL", -1)
                      /\ UNCHANGED of
                   \/ /\ of[o].state = "freed"
                      /\ Panic(p)
                      /\ UNCHANGED of
                   \/ LockAndLoad(p, "write_vop", "write", size, o)
    /\ UNCHANGED <<ft, vndata, released, moved, written>>

\* if(result) with the error dropped: the call goes on to return 0.
TransferFailedIgnored(p, err) ==
    /\ Return(p, th[p].op, th[p].fd, th[p].arg, "0", 0)
    /\ of' = [of EXCEPT ![th[p].thefile].lock = NULL]
    /\ UNCHANGED moved

\* The failure branch with its lock_release lost.
TransferFailedLockKept(p, err) ==
    /\ Return(p, th[p].op, th[p].fd, th[p].arg, err, -1)
    /\ UNCHANGED <<of, moved>>

\* if(result) { kfree(kbuf); lock_release(...); return result; }
TransferFailed(p, err) ==
    /\ Return(p, th[p].op, th[p].fd, th[p].arg, err, -1)
    /\ of' = [of EXCEPT ![th[p].thefile].lock = NULL]
    /\ UNCHANGED moved

\* *retval = theuio.uio_offset - oldOffset, with the subtraction forgotten.
BytesMovedFromStart(oldOffset, uio_offset) == uio_offset

\* *retval = theuio.uio_offset - oldOffset;
BytesMoved(oldOffset, uio_offset) == uio_offset - oldOffset

\* The transfer has ended at offset end: the count, the store of the offset,
\* kfree, lock_release, filetable_put, return 0.
TransferDone(p, end) ==
    /\ of' = [of EXCEPT ![th[p].thefile].of_offset = end,
                        ![th[p].thefile].lock = NULL]
    /\ moved' = [moved EXCEPT ![th[p].thefile] =
                    @ + BytesMoved(th[p].oldOffset, end)]
    /\ Return(p, th[p].op, th[p].fd, th[p].arg, "0",
              BytesMoved(th[p].oldOffset, end))

\* Lines 89-108: VOP_READ, which fails or moves what the file has from
\* uio_offset on, up to uio_resid bytes; then one of the two ways out.
SysReadVop(p) ==
    /\ th[p].pc = "read_vop"
    /\ Running
    /\ \/ TransferFailed(p, "EIO")
       \/ TransferDone(p, th[p].uio_offset
                             + ReadCount(vndata, th[p].uio_offset, th[p].arg))
    /\ UNCHANGED <<ft, vndata, released, written>>

\* The bytes callers write.
UserBytes == {"w", "x"}

\* The user buffers of size bytes: one byte, repeated.
UserBufs(size) == {[i \in 1..size |-> b] : b \in UserBytes}

\* The permission check of the VFS: a handle opened read-only takes no write.
VfsWriteAllowed(accmode) == accmode # O_RDONLY

\* Lines 144-162: VOP_WRITE, which fails (always so past the capacity of the
\* file system, and on a handle opened read-only) or writes uio_resid bytes
\* at uio_offset; then one of the two ways out.
SysWriteVop(p) ==
    /\ th[p].pc = "write_vop"
    /\ Running
    /\ \/ /\ TransferFailed(p,
                IF th[p].uio_offset + th[p].arg > MaxFileLen
                THEN "ENOSPC" ELSE "EIO")
          /\ UNCHANGED <<vndata, written>>
       \/ /\ th[p].uio_offset + th[p].arg <= MaxFileLen
          /\ VfsWriteAllowed(of[th[p].thefile].of_accmode)
          /\ \E buf \in UserBufs(th[p].arg) :
                /\ vndata' = WriteAt(vndata, th[p].uio_offset, buf)
                /\ written' = [written EXCEPT ![th[p].thefile] = @ \o buf]
          /\ TransferDone(p, th[p].uio_offset + th[p].arg)
    /\ UNCHANGED <<ft, released>>

\* The record of the last return is cleared before anything else happens: it
\* is there to be looked at, and no part of the kernel's state.
ReturnSeen ==
    /\ ret # NoReturn
    /\ ret' = NoReturn
    /\ UNCHANGED <<ft, of, vndata, th, released, moved, written>>

\* ------------------------------------------------------- specifications

\* No call of meld: its variables stay as they are.
MeldParked ==
    /\ mpc = "none"
    /\ vn1 = <<>>
    /\ vn2 = <<>>
    /\ vnmerge = <<>>
    /\ mergeExists = FALSE
    /\ mfile = [f \in MeldFiles |-> NoFile]
    /\ kbuf1 = <<>>
    /\ kbuf2 = <<>>
    /\ file1Read = -1
    /\ file2Read = -1
    /\ file1LastOffset = 0
    /\ file2LastOffset = 0
    /\ kheap = {}
    /\ mresult = "none"
    /\ mretval = -1

Init == FdInit /\ MeldParked

\* No call of meld is under way.
NoMeld == UNCHANGED meldVars

\* The second object has not been allocated.
SingleObject == of[2].state = "unused"

Next ==
    \/ ReturnSeen /\ NoMeld
    \/ \E p \in Procs : SysOpen(p) /\ SingleObject' /\ NoMeld
    \/ \E p \in Procs, fd \in Fds, q \in Procs : Dup(p, fd, q) /\ NoMeld
    \/ \E p \in Procs : SysCloseGet(p) /\ NoMeld
    \/ \E p \in Procs : SysCloseDecref(p) /\ NoMeld
    \/ \E p \in Procs : SysReadEntry(p) /\ NoMeld
    \/ \E p \in Procs : SysReadVop(p) /\ NoMeld
    \/ \E p \in Procs : SysWriteEntry(p) /\ NoMeld
    \/ \E p \in Procs : SysWriteVop(p) /\ NoMeld

\* The descriptor layer, followed through the life of one object shared by
\* any number of slots: two processes issuing open, dup, close, read, write.
Spec == Init /\ [][Next]_vars

\* The descriptor tables as they fill, with both objects: open and dup, and
\* no close, so that no slot is left with an object that was destroyed.
TableNext ==
    \/ ReturnSeen /\ NoMeld
    \/ \E p \in Procs : SysOpen(p) /\ NoMeld
    \/ \E p, q \in Procs, fd \in Fds : Dup(p, fd, q) /\ NoMeld

SpecTable == Init /\ [][TableNext]_vars

\* No call on a descriptor is under way.
NoCalls == UNCHANGED fdVars

MeldNext ==
    \/ MeldEntry /\ NoCalls
    \/ MeldWhile /\ NoCalls
    \/ MeldLock("lock1", "file1", "read1") /\ NoCalls
    \/ MeldRead1 /\ NoCalls
    \/ MeldLock("lock2", "file2", "read2") /\ NoCalls
    \/ MeldRead2 /\ NoCalls
    \/ MeldPad /\ NoCalls
    \/ MeldLock("lockw1", "filemerge", "write1") /\ NoCalls
    \/ MeldWriteFirst /\ NoCalls
    \/ MeldLock("lockw2", "filemerge", "write2") /\ NoCalls
    \/ MeldWriteSecond /\ NoCalls
    \/ MeldExit /\ NoCalls

\* One call of meld; its three objects are in no descriptor table.
InitMeld == MeldInit /\ FdInit

SpecMeld == InitMeld /\ [][MeldNext]_vars

\* One call of meld in which the transfers of the VFS may fail.
MeldNextIo ==
    \/ MeldNext
    \/ MeldReadFails("read1", "file1", "lock2") /\ NoCalls
    \/ MeldReadFails("read2", "file2", "pad") /\ NoCalls
    \/ MeldWriteFails("write1", "lockw2") /\ NoCalls
    \/ MeldWriteFails("write2", "while") /\ NoCalls

SpecMeldIo == InitMeld /\ [][MeldNextIo]_vars

\* The thread in meld is scheduled again and again: it takes a step whenever
\* it has one to take.
SpecMeldLive == SpecMeldIo /\ WF_vars(MeldNextIo)

\* The tables after process 1 has opened two files read-only and process 2
\* has come by the first of the two descriptors: object 1 in slot 0 of both
\* tables, object 2 in slot 1 of process 1.
FdShared ==
    /\ ft = [p \in Procs |-> [fd \in Fds |->
                IF fd = 0 THEN 1 ELSE IF fd = 1 /\ p = 1 THEN 2 ELSE NULL]]
    /\ of = [o \in Objs |->
                [NewObj(O_RDONLY) EXCEPT !.of_refcount = IF o = 1 THEN 2 ELSE 1]]
    /\ vndata = StartFile
    /\ th = [p \in Procs |-> Idle]
    /\ released = [o \in Objs |-> 0]
    /\ moved = [o \in Objs |-> 0]
    /\ written = [o \in Objs |-> <<>>]
    /\ ret = NoReturn

\* A call of meld on two short sources and a merged path that names no
\* file, beside the two processes.
InitLocks ==
    /\ MeldInit
    /\ Len(vn1) = LockSrcLen
    /\ Len(vn2) = LockSrcLen
    /\ ~mergeExists
    /\ FdShared

\* Three threads: one in meld, on its own three objects, and the threads of
\* the two processes, reading and writing through their descriptors.
LocksNext ==
    \/ MeldNextIo /\ ret = NoReturn
    \/ ReturnSeen /\ NoMeld
    \/ \E p \in Procs : SysReadEntry(p) /\ NoMeld
    \/ \E p \in Procs : SysReadVop(p) /\ NoMeld
    \/ \E p \in Procs : SysWriteEntry(p) /\ NoMeld
    \/ \E p \in Procs : SysWriteVop(p) /\ NoMeld

SpecLocks == InitLocks /\ [][LocksNext]_vars

\* ------------------------------------------------------- claims on meld

MeldSucceeded == mpc = "done" /\ mresult = "0"

\* The k-th chunk of a file, as far as the file goes.
Chunk(data, k) ==
    SubSeq(data, ChunkSize * (k - 1) + 1, Min(Len(data), ChunkSize * k))

\* Two files of one length, a multiple of the chunk width, chunk by chunk:
\* byte i of the result lies in block (i - 1) \div 8, in its first half
\* (source a) or its second (source b).
Interleave(a, b) ==
    [i \in 1..(Len(a) + Len(b)) |->
        LET blk == (i - 1) \div (2 * ChunkSize)
            pos == (i - 1) % (2 * ChunkSize)
        IN  IF pos < ChunkSize THEN a[ChunkSize * blk + pos + 1]
            ELSE b[ChunkSize * blk + (pos - ChunkSize) + 1]]

TestSource1 == <<"0", "1", "2", "3", "8", "9", "0", "1">>

TestSource2 == <<"4", "5", "6", "7", "2", "3", "4", "5">>

TestMerged == <<"0", "1", "2", "3", "4", "5", "6", "7",
                "8", "9", "0", "1", "2", "3", "4", "5">>

\* C1: for two sources of one length that is a multiple of 4, a successful
\* meld leaves a destination whose k-th 8-byte block is chunk k of source 1
\* followed by chunk k of source 2, unpadded, and reports the sum of the two
\* lengths; for "01238901" and "45672345" that is "0123456789012345" and 16.
C1_EqualLengthMeld ==
    (MeldSucceeded /\ Len(vn1) = Len(vn2) /\ Len(vn1) % ChunkSize = 0)
        => /\ vnmerge = Interleave(vn1, vn2)
           /\ mretval = Len(vn1) + Len(vn2)
           /\ (vn1 = TestSource1 /\ vn2 = TestSource2)
                 => (vnmerge = TestMerged /\ mretval = 16)

C1_Witness ==
    /\ MeldSucceeded
    /\ vn1 = TestSource1
    /\ vn2 = TestSource2
    /\ vnmerge = TestMerged
    /\ mretval = 16

\* The number of complete chunks of a file.
FullChunks(data) == Len(data) \div ChunkSize

\* Complete chunk k of source 1 (half = 0) or source 2 (half = 1) stands in
\* block k of the destination.
ChunkInMerged(data, k, half) ==
    /\ Len(vnmerge) >= 2 * ChunkSize * (k - 1) + ChunkSize * (half + 1)
    /\ SubSeq(vnmerge, 2 * ChunkSize * (k - 1) + ChunkSize * half + 1,
                       2 * ChunkSize * (k - 1) + ChunkSize * (half + 1))
          = Chunk(data, k)

\* C2: the loop of meld is left only after an iteration in which both reads
\* returned zero bytes, so that every 4-byte chunk of either source, the
\* longer one included, is in the destination when meld has succeeded.
C2_ExitOnlyWhenBothExhausted ==
    /\ mpc = "exit" => (file1Read = 0 /\ file2Read = 0)
    /\ MeldSucceeded =>
          /\ \A k \in 1..FullChunks(vn1) : ChunkInMerged(vn1, k, 0)
          /\ \A k \in 1..FullChunks(vn2) : ChunkInMerged(vn2, k, 1)

\* The chunk a short read of n bytes ending at offset end should give: the n
\* bytes read, then spaces.
PaddedChunk(data, end, n) ==
    [i \in 1..ChunkSize |-> IF i <= n THEN data[end - n + i] ELSE SPACE]

LastChunkOfMerged == SubSeq(vnmerge, Len(vnmerge) - ChunkSize + 1, Len(vnmerge))

\* C3: when a read of a source returns n bytes, 0 < n < 4, the chunk written
\* for that source is those n bytes, unchanged and in order, followed by
\* 4 - n spaces.
C3_ShortChunkPadded ==
    /\ (mpc = "lockw2" /\ file1Read > 0 /\ file1Read < ChunkSize)
          => LastChunkOfMerged = PaddedChunk(vn1, file1LastOffset, file1Read)
    /\ (mpc = "while" /\ file2Read > 0 /\ file2Read < ChunkSize)
          => LastChunkOfMerged = PaddedChunk(vn2, file2LastOffset, file2Read)


\* ------------------------------------------- claims on the descriptor layer

IoOps == {"read", "write"}

\* The errors of a transfer in the VFS.
VopErrors == {"EIO", "ENOSPC"}

\* A read or a write has just returned success.
IoSucceeded == ret.op \in IoOps /\ ret.result = "0"

\* C4: after a successful read or write the object's offset minus its offset
\* when the transfer began is the count reported, the count is not negative
\* and at most the size asked for, and a read that began at or past the end
\* of the file reports 0 and leaves the offset where it was.
C4_OffsetAdvancesByCount ==
    IoSucceeded =>
        /\ of[ret.thefile].of_offset - ret.before = ret.retval
        /\ ret.retval >= 0
        /\ ret.retval <= ret.arg
        /\ (ret.op = "read" /\ ret.before >= Len(vndata))
              => (ret.retval = 0 /\ of[ret.thefile].of_offset = ret.before)

\* A read of 2 bytes that got 1, the last of the file, after an earlier
\* transfer had moved the offset.
C4_Witness ==
    /\ IoSucceeded
    /\ ret.op = "read"
    /\ ret.arg = 2
    /\ ret.retval = 1
    /\ ret.before = 1
    /\ of[ret.thefile].of_offset = 2

\* Thread p is between its read of the object's offset and its store of it.
InTransfer(p) == th[p].pc \in {"read_vop", "write_vop"}

\* C5: of two threads that read or write through descriptors sharing an
\* object, never both are between the read and the store of its offset; while
\* one is, the offset stays the one it read, so that its transfer begins
\* where the last one ended; and the offset of the object is the sum of the
\* counts reported on it.
C5_TransfersSerialized ==
    /\ \A p, q \in Procs :
          (p # q /\ InTransfer(p) /\ InTransfer(q))
              => th[p].thefile # th[q].thefile
    /\ \A p \in Procs :
          InTransfer(p) => of[th[p].thefile].of_offset = th[p].oldOffset
    /\ \A o \in Objs : moved[o] = of[o].of_offset

\* Process 1 inside a transfer that began where an earlier one ended, on a
\* live object that process 2, kept out by the lock, holds in a slot too.
C5_Witness ==
    /\ th[1].pc = "read_vop"
    /\ th[2].pc = "idle"
    /\ \E fd \in Fds : ft[1][fd] = th[1].thefile
    /\ \E fd \in Fds : ft[2][fd] = th[1].thefile
    /\ of[th[1].thefile].state = "live"
    /\ of[th[1].thefile].lock = 1
    /\ th[1].oldOffset = 1
    /\ moved[th[1].thefile] = 1

\* The slots, of any table, that hold object o.
SlotsOf(o) == {s \in Procs \X Fds : ft[s[1]][s[2]] = o}

\* C6: every slot that is not empty holds an object that has not been
\* destroyed, whose count is at least the number of slots that hold it.
C6_SlotsHoldLiveObjects ==
    \A p \in Procs, fd \in Fds :
        ft[p][fd] # NULL =>
            /\ of[ft[p][fd]].state = "live"
            /\ of[ft[p][fd]].of_refcount >= Cardinality(SlotsOf(ft[p][fd]))

\* C7: the handle of an object is released once, by the decrement that takes
\* the count from 1 to zero, and when it is released no slot holds the object.
C7_ReleasedOnceWhenUnreferenced ==
    [][\A o \in Objs :
          released'[o] # released[o] =>
              /\ released[o] = 0
              /\ released'[o] = 1
              /\ of[o].of_refcount = 1
              /\ of'[o].of_refcount = 0
              /\ {s \in Procs \X Fds : ft'[s[1]][s[2]] = o} = {}]_vars

\* A close has just returned success, having found the count of a live
\* object to be 1.
ClosedLastReference ==
    /\ ret.op = "close"
    /\ ret.result = "0"
    /\ ret.arg = 1

\* C8: when close has succeeded on a descriptor whose object had count 1,
\* the slot is empty and the handle of the object is released; a read, write
\* or close on a descriptor whose slot is empty fails with EBADF; and a close
\* that has resolved its descriptor returns success.
C8_CloseOfLastReference ==
    /\ [](ClosedLastReference =>
             /\ ft[ret.p][ret.fd] = NULL
             /\ of[ret.thefile].state = "freed"
             /\ released[ret.thefile] = 1)
    /\ [][(ret = NoReturn /\ ret' # NoReturn
              /\ ret'.op \in IoOps \cup {"close"}
              /\ ret'.fd \in Fds /\ ft[ret'.p][ret'.fd] = NULL
              /\ th[ret'.p].pc = "idle")
           => ret'.result = "EBADF"]_vars
    /\ [](ret.op = "close" /\ ret.thefile # NULL => ret.result = "0")

\* The offset and the lock of the object after a transfer that failed.
TransferFailedNow == ret.op \in IoOps /\ ret.result \in VopErrors

\* C9: when the transfer of a read or write fails in the VFS, the call
\* returns the error, the offset of the object is what it was before, and the
\* caller does not hold the object's lock.
C9_FailedTransferLeavesOffset ==
    /\ TransferFailedNow =>
          /\ of[ret.thefile].of_offset = ret.before
          /\ of[ret.thefile].lock # ret.p
          /\ th[ret.p].pc = "idle"
    /\ \A p \in Procs :
          th[p].pc = "idle" => \A o \in Objs : of[o].lock # p

\* A write that failed after an earlier transfer had moved the offset.
C9_Witness ==
    /\ TransferFailedNow
    /\ ret.op = "write"
    /\ ret.result = "EIO"
    /\ ret.before = 1
    /\ of[ret.thefile].of_offset = 1
    /\ of[ret.thefile].lock = NULL

\* flags is negative or has a bit set outside allflags.
IllegalFlags(flags) == flags < 0 \/ BitAnd(flags, allflags) # flags

\* C10: open with flags negative or with a bit outside the access mode,
\* O_CREAT, O_EXCL, O_TRUNC, O_APPEND and O_NOCTTY fails with EINVAL and
\* leaves every table and every object as it was.
C10_BadFlagsRejected ==
    [][(ret = NoReturn /\ ret' # NoReturn /\ ret'.op = "open"
           /\ IllegalFlags(ret'.arg))
        => (ret'.result = "EINVAL" /\ ft' = ft /\ of' = of)]_vars

\* An open with O_CREAT and a bit outside the mask has been refused, in a
\* state where a slot is free and an object could have been made.
C10_Witness ==
    /\ ret.op = "open"
    /\ ret.arg = 256 + O_CREAT
    /\ ret.result = "EINVAL"
    /\ FreeSlots(ret.p) # {}
    /\ UnusedObjs # {}

\* A call of thread p on descriptor fd is about to begin on a live object
\* whose access mode is write-only.
OnWriteOnly(p, fd) ==
    /\ th[p].pc = "idle"
    /\ ft[p][fd] # NULL
    /\ of[ft[p][fd]].of_accmode = O_WRONLY

\* C11: a read on a descriptor whose object is write-only returns EBADF and
\* leaves every object (its offset, its lock), the file and the counts moved
\* as they were; no thread is ever under the lock of a write-only object, at
\* the VFS transfer of a read.
C11_ReadOfWriteOnlyRefused ==
    /\ [](\A p \in Procs :
             th[p].pc = "read_vop" => of[th[p].thefile].of_accmode # O_WRONLY)
    /\ [][\A p \in Procs, fd \in Fds :
             (OnWriteOnly(p, fd) /\ ret = NoReturn /\ ret'.op = "read"
                 /\ ret'.p = p /\ ret'.fd = fd)
             => /\ ret'.result = "EBADF"
                /\ of' = of
                /\ vndata' = vndata
                /\ moved' = moved]_vars

\* A read has been refused on a live write-only object that a write had
\* moved to offset 1.
C11_Witness ==
    /\ ret.op = "read"
    /\ ret.result = "EBADF"
    /\ ret.fd \in Fds
    /\ ft[ret.p][ret.fd] # NULL
    /\ of[ft[ret.p][ret.fd]].state = "live"
    /\ of[ft[ret.p][ret.fd]].of_accmode = O_WRONLY
    /\ of[ft[ret.p][ret.fd]].of_offset = 1

\* Thread p has taken a step.
Stepped(p) == th'[p] # th[p]

\* C12: a write on a descriptor whose object was opened read-only returns an
\* error, puts no byte into the file and leaves the offset of the object as
\* it was: no write returns success on a read-only object, and the step of a
\* thread at the VFS transfer of such a write is a return of an error that
\* changes neither the file nor the offset.
C12_WriteOfReadOnlyRejected ==
    /\ []((ret.op = "write" /\ ret.result = "0")
             => of[ret.thefile].of_accmode # O_RDONLY)
    /\ [][\A p \in Procs :
             (th[p].pc = "write_vop" /\ Stepped(p)
                 /\ of[th[p].thefile].of_accmode = O_RDONLY)
             => /\ ret'.p = p
                /\ ret'.op = "write"
                /\ ret'.result \in VopErrors
                /\ vndata' = vndata
                /\ of'[th[p].thefile].of_offset = of[th[p].thefile].of_offset]_vars

\* A write has been refused on a live read-only object that a read had moved
\* to offset 1.
C12_Witness ==
    /\ ret.op = "write"
    /\ ret.result = "EIO"
    /\ of[ret.thefile].state = "live"
    /\ of[ret.thefile].of_accmode = O_RDONLY
    /\ ret.before = 1
    /\ of[ret.thefile].of_offset = 1

\* C13: a meld whose merged path names a file that exists ends in its first
\* step with an error and with the bytes of that file as they were; the
\* error is EEXIST whenever both sources were opened, so that the call came
\* to the open of the merged path.
C13_ExistingMergedRefused ==
    [][(mpc = "entry" /\ mergeExists)
         => /\ mpc' = "done"
            /\ mresult' \in {"EINVAL", "EFAULT", "ENOENT", "EEXIST"}
            /\ vnmerge' = vnmerge
            /\ (mfile'["file2"] # NoFile => mresult' = "EEXIST")]_vars

\* The call has ended with EEXIST, both sources opened, on a merged file that
\* still has its old bytes.
C13_Witness ==
    /\ mpc = "done"
    /\ mresult = "EEXIST"
    /\ mfile["file2"] # NoFile
    /\ mfile["filemerge"] = NoFile
    /\ vnmerge = OldMerged
    /\ vn1 # <<>>
    /\ vn2 # <<>>

\* C15: when meld has ended, on whichever way, no object it opened still
\* has the reference meld took.
C15_MeldDropsEveryReference ==
    mpc = "done" => \A f \in MeldFiles : mfile[f].of_refcount = 0

\* C16: a handler that has returned has freed every kernel buffer it
\* allocated and holds no offset lock: meld at its end, and open, read and
\* write at their return.
C16_NothingHeldOnReturn ==
    /\ mpc = "done"
          => kheap = {} /\ \A f \in MeldFiles : ~mfile[f].locked
    /\ ret # NoReturn
          => ret.heap = {} /\ \A o \in Objs : of[o].lock # ret.p

\* C14: the writes that succeeded through a write-only object, which began
\* at offset 0 when it was opened, lie in the file one after the other from
\* the start, in the order they were made, and the offset of the object is
\* the sum of their sizes: after a write of a bytes and a write of b bytes
\* the first a + b bytes of the file are the first buffer followed by the
\* second, and the offset is a + b.
C14_SequentialWritesAppend ==
    \A o \in Objs :
        (of[o].state = "live" /\ of[o].of_accmode = O_WRONLY)
        => /\ of[o].of_offset = Len(written[o])
           /\ Len(vndata) >= Len(written[o])
           /\ SubSeq(vndata, 1, Len(written[o])) = written[o]

\* A second write, of one byte, has returned on an object whose first write
\* was of one other byte.
C14_Witness ==
    /\ ret.op = "write"
    /\ ret.result = "0"
    /\ ret.before = 1
    /\ ret.arg = 1
    /\ of[ret.thefile].state = "live"
    /\ of[ret.thefile].of_offset = 2
    /\ written[ret.thefile] = <<"w", "x">>
    /\ vndata = <<"w", "x">>

\* A source is at its end of file.
AtEof(f, vn) == mfile[f].of_offset = Len(vn)

\* C17: a transfer that fails in the loop of meld changes nothing in how the
\* loop goes on and ends: the loop is left only at end of file, that is with
\* the source whose read gave 0 bytes at the end of its file, and meld then
\* returns 0 with the end offset of the destination.
C17_TransferErrorKeepsLoop ==
    /\ mpc = "exit"
          => /\ file1Read = 0 \/ file2Read = 0
             /\ file1Read = 0 => AtEof("file1", vn1)
             /\ file2Read = 0 => AtEof("file2", vn2)
    /\ MeldSucceeded
          => /\ mretval = mfile["filemerge"].of_offset
             /\ mretval = Len(vnmerge)

\* C18: a call of meld comes to its end for every pair of source files,
\* whether or not transfers fail, and at its end no offset lock of its three
\* objects is held.
C18_MeldTerminates ==
    /\ <>(mpc = "done")
    /\ [](mpc = "done" => \A f \in MeldFiles : ~mfile[f].locked)

\* Meld has returned 0 after a read that failed ended its loop: a source is
\* short of its end of file, and bytes were written.
C18_Witness ==
    /\ MeldSucceeded
    /\ ~AtEof("file1", vn1)
    /\ ~AtEof("file2", vn2)
    /\ mretval > 0
    /\ \A f \in MeldFiles : ~mfile[f].locked

\* Object o is in a slot of some table.
Referenced(o) == \E p \in Procs, fd \in Fds : ft[p][fd] = o

\* C19: an open that finds the table of its process full leaves no object
\* behind: every live object is in a slot of some table, and an open that
\* returns 0 has put its object in the slot it returns.
C19_FullTableOpenLeavesNoObject ==
    /\ \A o \in Objs : of[o].state = "live" => Referenced(o)
    /\ (ret.op = "open" /\ ret.result = "0") => ft[ret.p][ret.retval] # NULL

\* The offset locks a thread of a process holds, and those the thread in
\* meld holds.
HeldBy(p) == {o \in Objs : of[o].lock = p}

MeldHeld == {f \in MeldFiles : mfile[f].locked}

\* The lock meld holds at each of its program points.
MeldHolds ==
    CASE mpc = "read1" -> {"file1"}
      [] mpc = "read2" -> {"file2"}
      [] mpc \in {"write1", "write2"} -> {"filemerge"}
      [] OTHER -> {}

\* Thread q begins a read on object o: it takes the lock of o.
BeginsReadOn(q, o) ==
    SysReadEntry(q) /\ th'[q].pc = "read_vop" /\ th'[q].thefile = o

\* C20: a thread in read, write or meld holds at most one offset lock, the
\* one of the object its transfer is on, and none between calls or when meld
\* takes its next lock or has ended; a thread that holds a lock can always
\* take its next step, so that no set of threads waits in a circle; and a
\* lock held on one object keeps no thread from beginning a read on another
\* object whose lock is free.
C20_OneLockAtATime ==
    /\ \A p \in Procs :
          /\ Cardinality(HeldBy(p)) <= 1
          /\ th[p].pc = "idle" => HeldBy(p) = {}
          /\ th[p].pc \in {"read_vop", "write_vop"} => HeldBy(p) = {th[p].thefile}
          /\ (HeldBy(p) # {} /\ ret = NoReturn)
                => ENABLED (SysReadVop(p) \/ SysWriteVop(p))
    /\ MeldHeld = MeldHolds
    /\ \A p, q \in Procs, fd \in Fds :
          (/\ ret = NoReturn
           /\ th[q].pc = "idle"
           /\ ft[q][fd] # NULL
           /\ of[ft[q][fd]].lock = NULL
           /\ ~ReadRefused(of[ft[q][fd]].of_accmode)
           /\ HeldBy(p) # {}
           /\ ft[q][fd] \notin HeldBy(p))
          => ENABLED BeginsReadOn(q, ft[q][fd])

\* Three threads hold one lock each, on three objects: process 1 on object
\* 2, process 2 on object 1, and meld on its second source.
C20_Witness ==
    /\ HeldBy(1) = {2}
    /\ HeldBy(2) = {1}
    /\ MeldHeld = {"file2"}

=============================================================================
